---- MODULE Spec2Model ----
(***************************************************************************)
(* The streaming response demultiplexer of api/agent_router.py:            *)
(* chat_with_agent.generate consumes the fragments of an agent's output,   *)
(* extracts the [IMAGE:..], [IMAGE_META:..] and [CHART:..] markers and     *)
(* emits typed SSE events.  Text is a sequence of one-character strings.   *)
(***************************************************************************)
EXTENDS Integers, Sequences, FiniteSets, TLC

(***************************************************************************)
(* Characters and their byte values (ASCII, where UTF-8 is one byte).      *)
(* "grave" stands for the character of code 96, which a TLA+ string cannot *)
(* hold.                                                                   *)
(***************************************************************************)
AsciiPrintable ==
  <<" ", "!", "\"", "#", "$", "%", "&", "'", "(", ")", "*", "+", ",", "-", ".", "/",
    "0", "1", "2", "3", "4", "5", "6", "7", "8", "9", ":", ";", "<", "=", ">", "?",
    "@", "A", "B", "C", "D", "E", "F", "G", "H", "I", "J", "K", "L", "M", "N", "O",
    "P", "Q", "R", "S", "T", "U", "V", "W", "X", "Y", "Z", "[", "\\", "]", "^", "_",
    "grave", "a", "b", "c", "d", "e", "f", "g", "h", "i", "j", "k", "l", "m", "n", "o",
    "p", "q", "r", "s", "t", "u", "v", "w", "x", "y", "z", "{", "|", "}", "~">>

NL == "\n"

\* str.encode('utf-8') of one ASCII character: its code point.
OrdTable ==
  [c \in {AsciiPrintable[i] : i \in 1..Len(AsciiPrintable)} |->
     31 + (CHOOSE i \in 1..Len(AsciiPrintable) : AsciiPrintable[i] = c)]

Ord(c) == IF c = NL THEN 10 ELSE OrdTable[c]

\* bytes.decode of one byte below 128.
Chr(b) == IF b = 10 THEN NL ELSE AsciiPrintable[b - 31]

B64Chars ==
  <<"A", "B", "C", "D", "E", "F", "G", "H", "I", "J", "K", "L", "M", "N", "O", "P",
    "Q", "R", "S", "T", "U", "V", "W", "X", "Y", "Z", "a", "b", "c", "d", "e", "f",
    "g", "h", "i", "j", "k", "l", "m", "n", "o", "p", "q", "r", "s", "t", "u", "v",
    "w", "x", "y", "z", "0", "1", "2", "3", "4", "5", "6", "7", "8", "9", "+", "/">>

\* the value of each character of the base64 alphabet
B64Index ==
  [c \in {B64Chars[i] : i \in 1..Len(B64Chars)} |->
     (CHOOSE i \in 1..Len(B64Chars) : B64Chars[i] = c) - 1]

Pow(b, e) == IF e = 0 THEN 1 ELSE IF e = 1 THEN b ELSE IF e = 2 THEN b * b ELSE b * b * b

\* base64.b64encode(s.encode('utf-8')).decode('ascii'): three bytes become four
\* characters of the base64 alphabet, the last group padded with "=".
B64Encode(s) ==
  LET n == Len(s)
      Byte(i) == IF i <= n THEN Ord(s[i]) ELSE 0
      Group(g) == Byte(3 * g + 1) * 65536 + Byte(3 * g + 2) * 256 + Byte(3 * g + 3)
      Sextet(g, j) == (Group(g) \div Pow(64, 3 - j)) % 64
      CharAt(k) ==
        LET g == (k - 1) \div 4
            j == (k - 1) % 4
        IN  IF 3 * g + j > n THEN "=" ELSE B64Chars[Sextet(g, j) + 1]
  IN  [k \in 1..(4 * ((n + 2) \div 3)) |-> CharAt(k)]

\* base64.b64decode(t).decode('utf-8'), the client's atob: the inverse of
\* B64Encode on its range.
B64Decode(t) ==
  LET m == Len(t) \div 4
      pads == Cardinality({k \in 1..Len(t) : t[k] = "="})
      Index(c) == IF c = "=" THEN 0 ELSE B64Index[c]
      Group(g) == Index(t[4 * g + 1]) * 262144 + Index(t[4 * g + 2]) * 4096
                  + Index(t[4 * g + 3]) * 64 + Index(t[4 * g + 4])
      CharAt(k) ==
        LET g == (k - 1) \div 3
            j == (k - 1) % 3
        IN  Chr((Group(g) \div Pow(256, 2 - j)) % 256)
  IN  [k \in 1..(3 * m - pads) |-> CharAt(k)]

(***************************************************************************)
(* The str methods the handler uses, with Python's 0-based indices.        *)
(***************************************************************************)
\* s[a:b]
Slice(s, a, b) == SubSeq(s, a + 1, b)

\* s.startswith(p)
StartsWith(s, p) == Len(s) >= Len(p) /\ SubSeq(s, 1, Len(p)) = p

\* s.endswith(p)
EndsWith(s, p) == Len(s) >= Len(p) /\ SubSeq(s, Len(s) - Len(p) + 1, Len(s)) = p

\* p occurs in s at 0-based index i
MatchAt(s, i, p) ==
  i + Len(p) <= Len(s) /\ \A k \in 1..Len(p) : s[i + k] = p[k]

\* p in s
Contains(s, p) == \E i \in 0..(Len(s) - Len(p)) : MatchAt(s, i, p)

\* s.find(p): the lowest index, -1 when p does not occur
Find(s, p) ==
  IF Contains(s, p)
  THEN CHOOSE i \in 0..(Len(s) - Len(p)) :
         MatchAt(s, i, p) /\ \A j \in 0..(i - 1) : ~MatchAt(s, j, p)
  ELSE -1

\* s.rfind(p): the highest index, -1 when p does not occur
RFind(s, p) ==
  IF Contains(s, p)
  THEN CHOOSE i \in 0..(Len(s) - Len(p)) :
         MatchAt(s, i, p) /\ \A j \in (i + 1)..(Len(s) - Len(p)) : ~MatchAt(s, j, p)
  ELSE -1

\* s.count(p): the number of non-overlapping occurrences, scanned from the left
RECURSIVE CountFrom(_, _, _)
CountFrom(s, p, i) ==
  IF i + Len(p) > Len(s) THEN 0
  ELSE IF MatchAt(s, i, p) THEN 1 + CountFrom(s, p, i + Len(p))
  ELSE CountFrom(s, p, i + 1)

Count(s, p) == CountFrom(s, p, 0)

\* the characters str.strip() removes (those of the model's alphabet)
Whitespace == {" ", NL}

\* s.strip() is the empty string
IsBlank(s) == \A i \in 1..Len(s) : s[i] \in Whitespace

\* '\n' in s
HasNewline(s) == \E i \in 1..Len(s) : s[i] = NL

(***************************************************************************)
(* The marker prefixes and the events of chat_with_agent.generate.         *)
(***************************************************************************)
ImagePrefix == <<"[", "I", "M", "A", "G", "E", ":">>

ImageMetaPrefix == <<"[", "I", "M", "A", "G", "E", "_", "M", "E", "T", "A", ":">>

ChartPrefix == <<"[", "C", "H", "A", "R", "T", ":">>

\* the shorter strings the accumulation test of the handler looks for
ImageStart == <<"[", "I", "M", "A", "G", "E">>

ChartStart == <<"[", "C", "H", "A", "R", "T">>

Bracket == <<"[">>

Close == <<"]">>

EscapedClose == <<"\\", "]">>

\* the ceiling of the accumulation, `len(buffer) < 50000` in the handler.
\* The model scales it down, keeping it above the length of every output
\* with markers that it delivers, as 50000 is above a real marker's length.
OverflowCeiling == 40

\* one yielded frame "event: <type>\ndata: <data>\n\n"
Ev(type, data) == [type |-> type, data |-> data]

\* TextEvent without the newline test
TextEvent_AlwaysAnswer(text) == Ev("answer", text)

\* plain text: answer_base64 when it holds a newline, answer otherwise
TextEvent(text) ==
  IF HasNewline(text) THEN Ev("answer_base64", B64Encode(text))
  ELSE Ev("answer", text)

\* the text around a chart in the end-of-stream drain: always answer_base64
DrainTextEvent(text) == Ev("answer_base64", B64Encode(text))

ImageEvent(payload) == Ev("image", payload)

ImageMetaEvent(payload) == Ev("image_meta", B64Encode(payload))

\* ChartEvent with the JSON payload sent as it stands
ChartEvent_Raw(payload) == Ev("chart", payload)

ChartEvent(payload) == Ev("chart", B64Encode(payload))

\* the request's agent and authenticated user, fixed for one connection
AgentName == "chart_agent"

UserId == "1"

\* json.dumps({'success': True, 'agent': agent.name, 'user_id': user["id"]})
DoneEvent ==
  Ev("done", <<"{\"success\": true, \"agent\": \"", AgentName,
               "\", \"user_id\": ", UserId, "}">>)

\* the fixed user-facing message of the except branch (non-ASCII in the
\* source, carried here as one token)
GenericErrorMessage == "an error occurred while handling your question, retry later"

\* the exceptions agent.run_stream may raise
Exceptions == {"TimeoutError: llm request timed out", "KeyError: 'api_key'"}

\* ErrorEvent with the exception's text as the message
ErrorEvent_Leaks(e) == Ev("error", <<"{\"message\": \"", e, "\"}">>)

\* json.dumps({'message': ...}); the caught exception e goes to the log only
ErrorEvent(e) == Ev("error", <<"{\"message\": \"", GenericErrorMessage, "\"}">>)

TextTypes == {"answer", "answer_base64"}

MarkerTypes == {"image", "image_meta", "chart"}

TerminalTypes == {"done", "error"}

(***************************************************************************)
(* The body of the `async for chunk` loop, for one fragment.               *)
(***************************************************************************)
\* the scan for the "]" that closes a chart: the first "]" met at brace
\* depth 0, from index i on; -1 when the buffer ends first
RECURSIVE ChartScan(_, _, _)
ChartScan(b, i, depth) ==
  IF i >= Len(b) THEN -1
  ELSE IF b[i + 1] = "{" THEN ChartScan(b, i + 1, depth + 1)
  ELSE IF b[i + 1] = "}" THEN ChartScan(b, i + 1, depth - 1)
  ELSE IF b[i + 1] = "]" /\ depth = 0 THEN i
  ELSE ChartScan(b, i + 1, depth)

\* the test that lets the handler look for a complete chart
ChartComplete(b) ==
  /\ Contains(b, ChartPrefix)
  /\ Count(b, ChartPrefix) = Count(b, Close) - Count(b, EscapedClose)

\* "the buffer looks like the start of a marker: keep accumulating"
LooksLikeMarker(b) ==
  StartsWith(b, ImageStart) \/ StartsWith(b, ChartStart) \/ StartsWith(b, Bracket)

\* the result of one pass: the buffer kept, the events yielded, and the text
\* appended to full_response
Pass(b, out, said) == [buffer |-> b, out |-> out, said |-> said]

\* ChartBranch that leaves the consumed span in the buffer
ChartBranch_KeepsSpan(b, start_idx, end_idx) ==
  LET before_chart == Slice(b, 0, start_idx)
      chart_json == Slice(b, start_idx + 7, end_idx)
      shown == ~IsBlank(before_chart)
  IN  Pass(b,
           (IF shown THEN <<TextEvent(before_chart)>> ELSE <<>>)
             \o <<ChartEvent(chart_json)>>,
           IF shown THEN before_chart ELSE <<>>)

\* the chart branch, taken when ChartComplete(b) and the scan finds the end
ChartBranch(b, start_idx, end_idx) ==
  LET before_chart == Slice(b, 0, start_idx)
      chart_json == Slice(b, start_idx + 7, end_idx)
      shown == ~IsBlank(before_chart)
  IN  Pass(Slice(b, end_idx + 1, Len(b)),
           (IF shown THEN <<TextEvent(before_chart)>> ELSE <<>>)
             \o <<ChartEvent(chart_json)>>,
           IF shown THEN before_chart ELSE <<>>)

\* PlainBranch without the reset of the buffer
PlainBranch_NoReset(b) == Pass(b, <<TextEvent(b)>>, b)

\* "normal text, output it directly", and the buffer is reset
PlainBranch(b) == Pass(<<>>, <<TextEvent(b)>>, b)

\* HandleChunk with the accumulation test lacking its length guard
HandleChunk_NoCeiling(buffer0, chunk) ==
  LET b == buffer0 \o chunk
  IN  IF StartsWith(b, ImagePrefix) /\ EndsWith(b, Close)
      THEN Pass(<<>>, <<ImageEvent(Slice(b, 7, Len(b) - 1))>>, <<>>)
      ELSE IF StartsWith(b, ImageMetaPrefix) /\ EndsWith(b, Close)
      THEN Pass(<<>>, <<ImageMetaEvent(Slice(b, 12, Len(b) - 1))>>, <<>>)
      ELSE LET try == ChartComplete(b)
               start_idx == IF try THEN Find(b, ChartPrefix) ELSE -1
               end_idx == IF try THEN ChartScan(b, start_idx + 7, 0) ELSE -1
           IN  IF try /\ end_idx > start_idx
               THEN ChartBranch(b, start_idx, end_idx)
               ELSE IF LooksLikeMarker(b)
               THEN Pass(b, <<>>, <<>>)
               ELSE PlainBranch(b)

HandleChunk(buffer0, chunk) ==
  LET b == buffer0 \o chunk
  IN  IF StartsWith(b, ImagePrefix) /\ EndsWith(b, Close)
      THEN Pass(<<>>, <<ImageEvent(Slice(b, 7, Len(b) - 1))>>, <<>>)
      ELSE IF StartsWith(b, ImageMetaPrefix) /\ EndsWith(b, Close)
      THEN Pass(<<>>, <<ImageMetaEvent(Slice(b, 12, Len(b) - 1))>>, <<>>)
      ELSE LET try == ChartComplete(b)
               start_idx == IF try THEN Find(b, ChartPrefix) ELSE -1
               end_idx == IF try THEN ChartScan(b, start_idx + 7, 0) ELSE -1
           IN  IF try /\ end_idx > start_idx
               THEN ChartBranch(b, start_idx, end_idx)
               ELSE IF LooksLikeMarker(b) /\ Len(b) < OverflowCeiling
               THEN Pass(b, <<>>, <<>>)
               ELSE PlainBranch(b)

(***************************************************************************)
(* The code after the loop: "handle the remaining buffer".                 *)
(***************************************************************************)
\* DrainChart that yields the chart before the text in front of it
DrainChart_ChartFirst(b) ==
  LET start_idx == Find(b, ChartPrefix)
      end_idx == RFind(b, Close)
      before_chart == Slice(b, 0, start_idx)
      after_chart == Slice(b, end_idx + 1, Len(b))
  IN  IF end_idx > start_idx
      THEN Pass(b,
                <<ChartEvent(Slice(b, start_idx + 7, end_idx))>>
                  \o (IF ~IsBlank(before_chart) THEN <<DrainTextEvent(before_chart)>> ELSE <<>>)
                  \o (IF ~IsBlank(after_chart) THEN <<DrainTextEvent(after_chart)>> ELSE <<>>),
                (IF ~IsBlank(before_chart) THEN before_chart ELSE <<>>)
                  \o (IF ~IsBlank(after_chart) THEN after_chart ELSE <<>>))
      ELSE Pass(b, <<>>, <<>>)

DrainChart(b) ==
  LET start_idx == Find(b, ChartPrefix)
      end_idx == RFind(b, Close)
      before_chart == Slice(b, 0, start_idx)
      after_chart == Slice(b, end_idx + 1, Len(b))
  IN  IF end_idx > start_idx
      THEN Pass(b,
                (IF ~IsBlank(before_chart) THEN <<DrainTextEvent(before_chart)>> ELSE <<>>)
                  \o <<ChartEvent(Slice(b, start_idx + 7, end_idx))>>
                  \o (IF ~IsBlank(after_chart) THEN <<DrainTextEvent(after_chart)>> ELSE <<>>),
                (IF ~IsBlank(before_chart) THEN before_chart ELSE <<>>)
                  \o (IF ~IsBlank(after_chart) THEN after_chart ELSE <<>>))
      ELSE Pass(b, <<>>, <<>>)

\* Drain with the chart test written as "[" in buffer
Drain_BracketTest(b) ==
  IF b = <<>> THEN Pass(b, <<>>, <<>>)
  ELSE IF Contains(b, Bracket) THEN DrainChart(b)
  ELSE Pass(b, <<TextEvent(b)>>, b)

Drain(b) ==
  IF b = <<>> THEN Pass(b, <<>>, <<>>)
  ELSE IF Contains(b, ChartPrefix) THEN DrainChart(b)
  ELSE Pass(b, <<TextEvent(b)>>, b)

(***************************************************************************)
(* A whole clean run as a function of the fragments delivered: the loop    *)
(* over the fragments, the drain, the done event.                          *)
(***************************************************************************)
RECURSIVE LoopOver(_, _, _)
LoopOver(frags, b, out) ==
  IF frags = <<>> THEN Pass(b, out, <<>>)
  ELSE LET r == HandleChunk(b, Head(frags))
       IN  LoopOver(Tail(frags), r.buffer, out \o r.out)

RunFragments(frags) ==
  LET r == LoopOver(frags, <<>>, <<>>)
  IN  r.out \o Drain(r.buffer).out \o <<DoneEvent>>

(***************************************************************************)
(* One connection: agent.run_stream delivers the agent's output `input`    *)
(* in fragments; `pos` characters have been delivered in `nfrag` fragments.*)
(***************************************************************************)
VARIABLES input, pos, nfrag, buffer, full_response, events, pc

sseVars == <<input, pos, nfrag, buffer, full_response, events, pc>>

(***************************************************************************)
(* The chat history tables of common/repositories: the rows of             *)
(* chat_messages in insertion order, chat_sessions by session id, the      *)
(* database server's clock (NOW(), in seconds), and what the callers of    *)
(* create_message passed and were returned.                                *)
(***************************************************************************)
VARIABLES chat_sessions, chat_messages, db_clock, message_log

chatVars == <<chat_sessions, chat_messages, db_clock, message_log>>

(***************************************************************************)
(* Concurrent connections: each chat request runs its own `generate`,      *)
(* whose locals (buffer, full_response) live in that generator's frame.    *)
(* conns[c] is connection c: its agent's output, what was delivered of it  *)
(* and in which fragments, the generator's locals, the events it sent.     *)
(***************************************************************************)
VARIABLES conns

connVars == <<conns>>

(***************************************************************************)
(* An AgentMemory object (core/memory.py): self._memory, self.max_rounds,  *)
(* and the calls made on the object so far.                                *)
(***************************************************************************)
VARIABLES memory, max_rounds, calls

memVars == <<memory, max_rounds, calls>>

(***************************************************************************)
(* The session API (api/session_api.py): the last call and its response.   *)
(***************************************************************************)
VARIABLES response

apiVars == <<response>>

vars == <<input, pos, nfrag, buffer, full_response, events, pc,
          chat_sessions, chat_messages, db_clock, message_log,
          conns, memory, max_rounds, calls, response>>

\* what a streaming connection does not touch
offConnection == <<chatVars, connVars, memVars, apiVars>>

\* what the message repository does not touch
offTables == <<sseVars, connVars, memVars, apiVars>>

\* no concurrent connections, no agent memory in use, no API call made
NoConnections == conns = <<>>

NoAgentMemory == memory = <<>> /\ max_rounds = 1 /\ calls = <<>>

NoApiCall == response = [status |-> 0]

\* Python's None, as a token that no session id equals
None == "<None>"

\* NULL in a text column (None in Python): a value that no string equals
NULL == <<None>>

\* the sessions that exist
SessionIds == {"s1", "s2"}

\* the users, by id
Users == {1, 2}

\* chat_sessions.user_id of the sessions that exist
SessionOwner == [s \in SessionIds |-> IF s = "s1" THEN 1 ELSE 2]

\* the tables as a streaming connection finds them (it does not touch them)
ChatTables ==
  /\ chat_sessions = [s \in SessionIds |->
                        [user_id |-> SessionOwner[s], title |-> NULL,
                         created_at |-> 0, updated_at |-> 0]]
  /\ chat_messages = <<>>
  /\ db_clock = 0
  /\ message_log = <<>>

\* bounds of the model: the pieces an output is made of, and the fragments
\* it is delivered in
MaxPieces == 2

MaxFrags == 3

Pieces ==
  {ImagePrefix, ImageMetaPrefix, ChartPrefix, Close, Bracket,
   <<"{">>, <<"}">>, <<"a">>, <<" ">>, <<NL>>, <<"\\">>}

RECURSIVE Outputs(_)
Outputs(k) ==
  IF k = 0 THEN {<<>>}
  ELSE Outputs(k - 1) \cup {s \o p : s \in Outputs(k - 1), p \in Pieces}

\* the outputs the design's test cases name
HelloImage ==
  <<"h", "e", "l", "l", "o", " ", "[", "I", "M", "A", "G", "E", ":",
    "Q", "U", "J", "D", "]", " ", "w", "o", "r", "l", "d">>

SeeChart ==
  <<"s", "e", "e", " ", "[", "C", "H", "A", "R", "T", ":", "{", "\"", "a", "\"", ":",
    "[", "1", ",", "2", ",", "3", "]", "}", "]", " ", "d", "o", "n", "e">>

TruncatedChart ==
  <<"p", "r", "e", "f", "i", "x", " ", "[", "C", "H", "A", "R", "T", ":",
    "{", "\"", "x", "\"", ":", "1">>

\* a chart between two blanks
SpacedChart == <<" ">> \o ChartPrefix \o <<"{", "}", "]", " ">>

\* a chart between two bracketed notes: "[1] [CHART:{}] [2]"
NotedChart ==
  <<"[", "1", "]", " ">> \o ChartPrefix \o <<"{", "}", "]", " ", "[", "2", "]">>

\* an image directly followed by its metadata: "[IMAGE:QUJD][IMAGE_META:{}]"
ImagePair ==
  ImagePrefix \o <<"Q", "U", "J", "D", "]">> \o ImageMetaPrefix \o <<"{", "}", "]">>

\* a chart between two words: "see [CHART:{}] ok"
ChartAfterText ==
  <<"s", "e", "e", " ">> \o ChartPrefix \o <<"{", "}", "]", " ", "o", "k">>

\* an image whose payload is wrapped over two lines: "[IMAGE:QU\nJD]"
WrappedImage == ImagePrefix \o <<"Q", "U", NL, "J", "D", "]">>

Examples ==
  {HelloImage, SeeChart, TruncatedChart, SpacedChart, NotedChart, ImagePair,
   ChartAfterText, WrappedImage}

AgentOutputs == Outputs(MaxPieces) \cup Examples

Init ==
  /\ input \in AgentOutputs
  /\ pos = 0
  /\ nfrag = 0
  /\ buffer = <<>>
  /\ full_response = <<>>
  /\ events = <<>>
  /\ pc = "streaming"
  /\ ChatTables
  /\ NoConnections
  /\ NoAgentMemory
  /\ NoApiCall

\* the loop body for the next fragment, of n characters
Feed(n) ==
  /\ pc = "streaming"
  /\ pos + n <= Len(input)
  /\ nfrag < MaxFrags
  /\ nfrag = MaxFrags - 1 => pos + n = Len(input)
  /\ LET r == HandleChunk(buffer, SubSeq(input, pos + 1, pos + n))
     IN  /\ buffer' = r.buffer
         /\ events' = events \o r.out
         /\ full_response' = full_response \o r.said
  /\ pos' = pos + n
  /\ nfrag' = nfrag + 1
  /\ UNCHANGED <<input, pc>>
  /\ UNCHANGED offConnection

\* the source is exhausted: the drain of the buffer, then the done event
EndOfStream ==
  /\ pc = "streaming"
  /\ pos = Len(input)
  /\ LET r == Drain(buffer)
     IN  /\ events' = events \o r.out \o <<DoneEvent>>
         /\ full_response' = full_response \o r.said
  /\ pc' = "done"
  /\ UNCHANGED <<input, pos, nfrag, buffer>>
  /\ UNCHANGED offConnection

\* SourceRaise with the done event sent after the error event as well
SourceRaise_ThenDone(e) ==
  /\ pc = "streaming"
  /\ events' = events \o <<ErrorEvent(e), DoneEvent>>
  /\ pc' = "error"
  /\ UNCHANGED <<input, pos, nfrag, buffer, full_response>>
  /\ UNCHANGED offConnection

\* agent.run_stream raises e: the except branch
SourceRaise(e) ==
  /\ pc = "streaming"
  /\ events' = Append(events, ErrorEvent(e))
  /\ pc' = "error"
  /\ UNCHANGED <<input, pos, nfrag, buffer, full_response>>
  /\ UNCHANGED offConnection

\* Cancel with the except branch run for the closed generator
Cancel_ThenError ==
  /\ pc = "streaming"
  /\ events' = Append(events, ErrorEvent("CancelledError"))
  /\ pc' = "cancelled"
  /\ UNCHANGED <<input, pos, nfrag, buffer, full_response>>
  /\ UNCHANGED offConnection

\* the client disconnects: the generator is closed where it is suspended
Cancel ==
  /\ pc = "streaming"
  /\ pc' = "cancelled"
  /\ UNCHANGED <<input, pos, nfrag, buffer, full_response, events>>
  /\ UNCHANGED offConnection

Next ==
  \/ \E n \in 0..Len(input) : Feed(n)
  \/ EndOfStream
  \/ \E e \in Exceptions : SourceRaise(e)
  \/ Cancel

Spec == Init /\ [][Next]_vars

(***************************************************************************)
(* A connection whose agent floods the handler with "[": outputs far       *)
(* longer than the ceiling, in any fragmentation.                          *)
(***************************************************************************)
FloodExtra == 5

FloodOutputs ==
  {[i \in 1..n |-> "["] :
     n \in {2 * OverflowCeiling + FloodExtra, 3 * OverflowCeiling}}
  \cup {ImagePrefix \o [i \in 1..(OverflowCeiling + FloodExtra) |-> "Q"]}

FloodInit ==
  /\ input \in FloodOutputs
  /\ pos = 0
  /\ nfrag = 0
  /\ buffer = <<>>
  /\ full_response = <<>>
  /\ events = <<>>
  /\ pc = "streaming"
  /\ ChatTables
  /\ NoConnections
  /\ NoAgentMemory
  /\ NoApiCall

SpecFlood == FloodInit /\ [][Next]_vars

(***************************************************************************)
(* The message repository (common/repositories/message_repo.py) on the     *)
(* chat tables.  No streaming connection is modelled here: pc = "idle".    *)
(***************************************************************************)
\* the default page size of get_messages_by_session; it stands for the
\* source's 100, scaled down so that a session can outgrow it
DefaultLimit == 3

DefaultOffset == 0

MaxMessages == DefaultLimit + 1

MaxClock == 1

Roles == {"user", "assistant"}

Contents == {"hello", "two\nlines"}

ChatInit ==
  /\ input = <<>>
  /\ pos = 0
  /\ nfrag = 0
  /\ buffer = <<>>
  /\ full_response = <<>>
  /\ events = <<>>
  /\ pc = "idle"
  /\ ChatTables
  /\ NoConnections
  /\ NoAgentMemory
  /\ NoApiCall

\* the row the INSERT adds: the id is the next AUTO_INCREMENT value
\* (cursor.lastrowid), one more than the number of rows ever inserted;
\* created_at is the column's default, the server's clock
NewMessageRow(session_id, role, content) ==
  [id |-> Len(message_log) + 1, session_id |-> session_id, role |-> role,
   content |-> content, created_at |-> db_clock]

\* create_message(session_id, role, content): INSERT, UPDATE of the
\* session's updated_at, commit, and the row read back by its id
create_message(session_id, role, content) ==
  /\ pc = "idle"
  /\ Len(chat_messages) < MaxMessages
  /\ LET row == NewMessageRow(session_id, role, content)
     IN  /\ chat_messages' = Append(chat_messages, row)
         /\ message_log' = Append(message_log,
              [id |-> row.id, session_id |-> session_id,
               role |-> role, content |-> content])
  /\ chat_sessions' = [chat_sessions EXCEPT ![session_id].updated_at = db_clock]
  /\ UNCHANGED db_clock
  /\ UNCHANGED offTables

\* a second passes on the database server
ClockTick ==
  /\ pc = "idle"
  /\ db_clock < MaxClock
  /\ db_clock' = db_clock + 1
  /\ UNCHANGED <<chat_sessions, chat_messages, message_log>>
  /\ UNCHANGED offTables

\* WHERE session_id = %s
SessionRows(session_id) ==
  SelectSeq(chat_messages, LAMBDA m : m.session_id = session_id)

\* ORDER BY created_at ASC: rows of equal created_at come in any order
Orderings(rows) ==
  {p \in Permutations(1..Len(rows)) :
     \A i, j \in 1..Len(rows) :
       i < j => rows[p[i]].created_at <= rows[p[j]].created_at}

\* LIMIT %s OFFSET %s
Page(rows, limit, offset) ==
  LET n == IF Len(rows) - offset < limit THEN Len(rows) - offset ELSE limit
  IN  [k \in 1..(IF n < 0 THEN 0 ELSE n) |-> rows[offset + k]]

\* get_messages_by_session(session_id, limit, offset): the lists the query
\* may return
get_messages_by_session(session_id, limit, offset) ==
  LET rows == SessionRows(session_id)
  IN  {Page([k \in 1..Len(rows) |-> rows[p[k]]], limit, offset) :
         p \in Orderings(rows)}

ChatNext ==
  \/ \E session_id \in SessionIds, role \in Roles, content \in Contents :
       create_message(session_id, role, content)
  \/ ClockTick

SpecChat == ChatInit /\ [][ChatNext]_vars

(***************************************************************************)
(* What a client reads back from the events.                               *)
(***************************************************************************)
\* the text of one answer / answer_base64 event
EventText(e) == IF e.type = "answer_base64" THEN B64Decode(e.data) ELSE e.data

\* the marker a structured event was extracted from
EventMarker(e) ==
  IF e.type = "image" THEN ImagePrefix \o e.data \o Close
  ELSE IF e.type = "image_meta" THEN ImageMetaPrefix \o B64Decode(e.data) \o Close
  ELSE ChartPrefix \o B64Decode(e.data) \o Close

\* the concatenation of the text events' decoded payloads, in emission order
RECURSIVE DecodedText(_)
DecodedText(evs) ==
  IF evs = <<>> THEN <<>>
  ELSE (IF Head(evs).type \in TextTypes THEN EventText(Head(evs)) ELSE <<>>)
         \o DecodedText(Tail(evs))

\* the same with every structured event put back as its marker
RECURSIVE Reproduced(_)
Reproduced(evs) ==
  IF evs = <<>> THEN <<>>
  ELSE (IF Head(evs).type \in TextTypes THEN EventText(Head(evs))
        ELSE IF Head(evs).type \in MarkerTypes THEN EventMarker(Head(evs))
        ELSE <<>>)
         \o Reproduced(Tail(evs))

HasMarkerPrefix(s) ==
  Contains(s, ImagePrefix) \/ Contains(s, ImageMetaPrefix) \/ Contains(s, ChartPrefix)

EventsOfType(t) == {i \in 1..Len(events) : events[i].type = t}

\* the events the last step added
Added == SubSeq(events', Len(events) + 1, Len(events'))

(***************************************************************************)
(* A connection whose client may disconnect at any point where the         *)
(* generator is suspended: at the await of the next fragment (Cancel) or   *)
(* at one of the yields of a loop pass or of the drain.  Closing the       *)
(* generator raises GeneratorExit / CancelledError there, which            *)
(* `except Exception` does not catch, and there is no `finally`.           *)
(***************************************************************************)
\* the first k of the events a pass yields
Yielded(out, k) == SubSeq(out, 1, k)

\* the generator is closed while suspended at the k-th yield of the pass
\* for the next fragment, of n characters: `buffer += chunk` and the
\* `full_response +=` in front of each yield reached have run, the
\* assignment to buffer after the yields has not
CancelAtYield(n, k) ==
  /\ pc = "streaming"
  /\ pos + n <= Len(input)
  /\ nfrag < MaxFrags
  /\ nfrag = MaxFrags - 1 => pos + n = Len(input)
  /\ LET chunk == SubSeq(input, pos + 1, pos + n)
         r == HandleChunk(buffer, chunk)
     IN  /\ k \in 1..Len(r.out)
         /\ events' = events \o Yielded(r.out, k)
         /\ buffer' = buffer \o chunk
         /\ full_response' = full_response \o r.said
  /\ pos' = pos + n
  /\ nfrag' = nfrag + 1
  /\ pc' = "cancelled"
  /\ UNCHANGED input
  /\ UNCHANGED offConnection

\* the generator is closed while suspended at the k-th yield of the drain
CancelInDrain(k) ==
  /\ pc = "streaming"
  /\ pos = Len(input)
  /\ LET r == Drain(buffer)
     IN  /\ k \in 1..Len(r.out)
         /\ events' = events \o Yielded(r.out, k)
         /\ full_response' = full_response \o DecodedText(Yielded(r.out, k))
  /\ pc' = "cancelled"
  /\ UNCHANGED <<input, pos, nfrag, buffer>>
  /\ UNCHANGED offConnection

\* the outputs of the connections with a disconnecting client
CancelOutputs == Outputs(MaxPieces - 1) \cup Examples

CancelInit ==
  /\ input \in CancelOutputs
  /\ pos = 0
  /\ nfrag = 0
  /\ buffer = <<>>
  /\ full_response = <<>>
  /\ events = <<>>
  /\ pc = "streaming"
  /\ ChatTables
  /\ NoConnections
  /\ NoAgentMemory
  /\ NoApiCall

MaxYields == 3

CancelNext ==
  \/ \E n \in 0..Len(input) : Feed(n)
  \/ EndOfStream
  \/ \E e \in Exceptions : SourceRaise(e)
  \/ Cancel
  \/ \E n \in 0..Len(input), k \in 1..MaxYields : CancelAtYield(n, k)
  \/ \E k \in 1..MaxYields : CancelInDrain(k)

SpecCancel == CancelInit /\ [][CancelNext]_vars

(***************************************************************************)
(* Two chat requests served at the same time.  The event loop runs one     *)
(* generator at a time and switches between them at their awaits and       *)
(* yields, so their loop passes interleave in any order.                   *)
(***************************************************************************)
Conns == {1, 2}

MaxConnFrags == 2

ShortImage == ImagePrefix \o <<"Q", "]">>

ShortChart == ChartPrefix \o <<"{", "}", "]", "b">>

\* the two requests' agents answer with different texts
ConnOutputs == <<ShortImage, ShortChart>>

\* the generator's frame at its start: full_response = "", buffer = ""
NewConn(out) ==
  [input |-> out, pos |-> 0, frags |-> <<>>, buffer |-> <<>>,
   full_response |-> <<>>, events |-> <<>>, pc |-> "streaming"]

\* BufferOf with one buffer kept at module level for all requests
BufferOf_Shared(c) == conns[1].buffer

\* the local `buffer` of connection c's generator
BufferOf(c) == conns[c].buffer

TwoInit ==
  /\ input = <<>>
  /\ pos = 0
  /\ nfrag = 0
  /\ buffer = <<>>
  /\ full_response = <<>>
  /\ events = <<>>
  /\ pc = "idle"
  /\ ChatTables
  /\ conns = [c \in Conns |-> NewConn(ConnOutputs[c])]
  /\ NoAgentMemory
  /\ NoApiCall

\* the loop body of connection c for its next fragment, of n characters
ConnFeed(c, n) ==
  /\ conns[c].pc = "streaming"
  /\ conns[c].pos + n <= Len(conns[c].input)
  /\ Len(conns[c].frags) < MaxConnFrags
  /\ Len(conns[c].frags) = MaxConnFrags - 1 => conns[c].pos + n = Len(conns[c].input)
  /\ LET chunk == SubSeq(conns[c].input, conns[c].pos + 1, conns[c].pos + n)
         r == HandleChunk(BufferOf(c), chunk)
     IN  conns' = [conns EXCEPT ![c] =
                     [@ EXCEPT !.pos = @ + n,
                               !.frags = Append(@, chunk),
                               !.buffer = r.buffer,
                               !.full_response = @ \o r.said,
                               !.events = @ \o r.out]]
  /\ UNCHANGED <<sseVars, chatVars, memVars, apiVars>>

\* connection c's source is exhausted: its drain, then its done event
ConnEndOfStream(c) ==
  /\ conns[c].pc = "streaming"
  /\ conns[c].pos = Len(conns[c].input)
  /\ LET r == Drain(BufferOf(c))
     IN  conns' = [conns EXCEPT ![c] =
                     [@ EXCEPT !.full_response = @ \o r.said,
                               !.events = @ \o r.out \o <<DoneEvent>>,
                               !.pc = "done"]]
  /\ UNCHANGED <<sseVars, chatVars, memVars, apiVars>>

\* connection c's agent raises e
ConnSourceRaise(c, e) ==
  /\ conns[c].pc = "streaming"
  /\ conns' = [conns EXCEPT ![c] =
                 [@ EXCEPT !.events = Append(@, ErrorEvent(e)), !.pc = "error"]]
  /\ UNCHANGED <<sseVars, chatVars, memVars, apiVars>>

\* connection c's client disconnects
ConnCancel(c) ==
  /\ conns[c].pc = "streaming"
  /\ conns' = [conns EXCEPT ![c] = [@ EXCEPT !.pc = "cancelled"]]
  /\ UNCHANGED <<sseVars, chatVars, memVars, apiVars>>

TwoNext ==
  \E c \in Conns :
    \/ \E n \in 0..Len(conns[c].input) : ConnFeed(c, n)
    \/ ConnEndOfStream(c)
    \/ \E e \in Exceptions : ConnSourceRaise(c, e)
    \/ ConnCancel(c)

SpecTwo == TwoInit /\ [][TwoNext]_vars

(***************************************************************************)
(* AgentMemory (core/memory.py): the conversation history of an agent,     *)
(* kept per session id.  The agents construct it with max_rounds = 10; the *)
(* model takes any max_rounds from 1 to MaxRounds.                         *)
(***************************************************************************)
MaxRounds == 2

MaxCalls == 4

MemSessionIds == {"s1", "s2"}

UserInputs == {"q1", "q2"}

AiOutputs == {"a1"}

HumanMessage(content) == [type |-> "human", content |-> content]

AIMessage(content) == [type |-> "ai", content |-> content]

\* `not session_id`
Not(session_id) == session_id \in {None, ""}

\* LastItems taking the slice from the front, lst[:m]
LastItems_First(lst, m) ==
  IF m >= 0 THEN SubSeq(lst, 1, IF m < Len(lst) THEN m ELSE Len(lst))
  ELSE SubSeq(lst, 1, IF Len(lst) + m > 0 THEN Len(lst) + m ELSE 0)

\* lst[-m:] as Python computes it: -0 is 0, the whole list; a negative
\* start counts from the end; a positive one (m < 0) from the front
LastItems(lst, m) ==
  LET start == IF m = 0 THEN 0
               ELSE IF m > 0 THEN (IF Len(lst) - m > 0 THEN Len(lst) - m ELSE 0)
               ELSE (IF -m < Len(lst) THEN -m ELSE Len(lst))
  IN  SubSeq(lst, start + 1, Len(lst))

MemoryInit ==
  /\ input = <<>>
  /\ pos = 0
  /\ nfrag = 0
  /\ buffer = <<>>
  /\ full_response = <<>>
  /\ events = <<>>
  /\ pc = "idle"
  /\ ChatTables
  /\ NoConnections
  /\ memory = <<>>
  /\ max_rounds \in 1..MaxRounds
  /\ calls = <<>>
  /\ NoApiCall

add_message(session_id, user_input, ai_output) ==
  /\ Len(calls) < MaxCalls
  /\ IF Not(session_id) THEN memory' = memory
     ELSE LET before == IF session_id \in DOMAIN memory THEN memory[session_id] ELSE <<>>
              appended == before \o <<HumanMessage(user_input), AIMessage(ai_output)>>
              max_messages == max_rounds * 2
              kept == IF Len(appended) > max_messages
                      THEN LastItems(appended, max_messages)
                      ELSE appended
          IN  memory' = [s \in DOMAIN memory \cup {session_id} |->
                           IF s = session_id THEN kept ELSE memory[s]]
  /\ calls' = Append(calls, [op |-> "add_message", session_id |-> session_id,
                             user_input |-> user_input, ai_output |-> ai_output])
  /\ UNCHANGED <<sseVars, chatVars, connVars, max_rounds, apiVars>>

clear(session_id) ==
  /\ Len(calls) < MaxCalls
  /\ memory' = [s \in DOMAIN memory \ {session_id} |-> memory[s]]
  /\ calls' = Append(calls, [op |-> "clear", session_id |-> session_id])
  /\ UNCHANGED <<sseVars, chatVars, connVars, max_rounds, apiVars>>

clear_all ==
  /\ Len(calls) < MaxCalls
  /\ memory' = <<>>
  /\ calls' = Append(calls, [op |-> "clear_all"])
  /\ UNCHANGED <<sseVars, chatVars, connVars, max_rounds, apiVars>>

MemoryNext ==
  \/ \E session_id \in MemSessionIds \cup {None, ""},
        user_input \in UserInputs, ai_output \in AiOutputs :
       add_message(session_id, user_input, ai_output)
  \/ \E session_id \in MemSessionIds : clear(session_id)
  \/ clear_all

SpecMemory == MemoryInit /\ [][MemoryNext]_vars

(***************************************************************************)
(* The session API (api/session_api.py) over the session and message       *)
(* repositories.  A handler is an `async def` without an await: it runs    *)
(* from the request to the response without another handler in between.    *)
(* Texts are sequences of characters here, so that a title can be cut      *)
(* from a message.                                                         *)
(***************************************************************************)
\* the length a title taken from a message is cut to; it stands for the
\* source's 50, scaled down
TitleLimit == 3

MaxApiMessages == 1

\* the ids uuid4 gives to the sessions created
NewSessionIds == {"s3"}

\* the session ids a request may name
ApiSessionIds == SessionIds \cup NewSessionIds

ApiTitles == {<<"t">>}

\* a message longer than a title may be
ApiContents == {[i \in 1..(TitleLimit + 1) |-> "x"]}

\* fetchone() of get_session_by_id: the row, or nothing
get_session_by_id(session_id) ==
  IF session_id \in DOMAIN chat_sessions THEN <<chat_sessions[session_id]>> ELSE <<>>

\* chat_sessions after UPDATE chat_sessions SET title, updated_at WHERE id
update_session_title(session_id, title) ==
  IF session_id \in DOMAIN chat_sessions
  THEN [chat_sessions EXCEPT ![session_id] =
          [@ EXCEPT !.title = title, !.updated_at = db_clock]]
  ELSE chat_sessions

\* the response of a handler: the request it answers, the status code, and
\* the body
Response(op, current_user, session_id, status_code, body) ==
  [op |-> op, caller |-> current_user, session_id |-> session_id,
   status |-> status_code, body |-> body]

\* raise HTTPException(status_code, detail): the handler ends there
HTTPException(op, current_user, session_id, status_code, detail) ==
  /\ response' = Response(op, current_user, session_id, status_code,
                          [detail |-> detail])
  /\ UNCHANGED chatVars

\* NotOwner that lets every user pass
NotOwner_Never(session, current_user) == FALSE

\* session["user_id"] != current_user["id"]
NotOwner(session, current_user) == session.user_id /= current_user

ApiInit ==
  /\ input = <<>>
  /\ pos = 0
  /\ nfrag = 0
  /\ buffer = <<>>
  /\ full_response = <<>>
  /\ events = <<>>
  /\ pc = "idle"
  /\ ChatTables
  /\ NoConnections
  /\ NoAgentMemory
  /\ NoApiCall

\* GET /api/sessions: the caller's sessions
api_get_sessions(current_user) ==
  /\ pc = "idle"
  /\ response' = Response("get_sessions", current_user, None, 200,
       [sessions |-> {sid \in DOMAIN chat_sessions :
                        chat_sessions[sid].user_id = current_user}])
  /\ UNCHANGED chatVars
  /\ UNCHANGED <<sseVars, connVars, memVars>>

\* POST /api/sessions: uuid4 gives an id that is not in the table
api_create_session(current_user, title) ==
  /\ pc = "idle"
  /\ \E session_id \in NewSessionIds \ DOMAIN chat_sessions :
       /\ chat_sessions' =
            [sid \in DOMAIN chat_sessions \cup {session_id} |->
               IF sid = session_id
               THEN [user_id |-> current_user, title |-> title,
                     created_at |-> db_clock, updated_at |-> db_clock]
               ELSE chat_sessions[sid]]
       /\ response' = Response("create_session", current_user, session_id, 201,
                               [title |-> title])
  /\ UNCHANGED <<chat_messages, db_clock, message_log>>
  /\ UNCHANGED <<sseVars, connVars, memVars>>

\* GET /api/sessions/{session_id}
api_get_session_detail(current_user, session_id) ==
  /\ pc = "idle"
  /\ LET session == get_session_by_id(session_id)
     IN  IF session = <<>>
         THEN HTTPException("get_session_detail", current_user, session_id,
                            404, "Session not found")
         ELSE IF NotOwner(session[1], current_user)
         THEN HTTPException("get_session_detail", current_user, session_id,
                            403, "Not authorized to access this session")
         ELSE /\ \E messages \in get_messages_by_session(session_id, DefaultLimit,
                                                         DefaultOffset) :
                   response' = Response("get_session_detail", current_user,
                                        session_id, 200,
                                        [title |-> session[1].title,
                                         messages |-> messages])
              /\ UNCHANGED chatVars
  /\ UNCHANGED <<sseVars, connVars, memVars>>

\* PUT /api/sessions/{session_id}
api_update_session(current_user, session_id, title) ==
  /\ pc = "idle"
  /\ LET session == get_session_by_id(session_id)
     IN  IF session = <<>>
         THEN HTTPException("update_session", current_user, session_id,
                            404, "Session not found")
         ELSE IF NotOwner(session[1], current_user)
         THEN HTTPException("update_session", current_user, session_id,
                            403, "Not authorized to access this session")
         ELSE /\ chat_sessions' = update_session_title(session_id, title)
              /\ response' = Response("update_session", current_user, session_id,
                                      200, [title |-> title])
              /\ UNCHANGED <<chat_messages, db_clock, message_log>>
  /\ UNCHANGED <<sseVars, connVars, memVars>>

\* DELETE /api/sessions/{session_id}: the session's row goes, and with it
\* (cascade) the session's messages
api_delete_session(current_user, session_id) ==
  /\ pc = "idle"
  /\ LET session == get_session_by_id(session_id)
     IN  IF session = <<>>
         THEN HTTPException("delete_session", current_user, session_id,
                            404, "Session not found")
         ELSE IF NotOwner(session[1], current_user)
         THEN HTTPException("delete_session", current_user, session_id,
                            403, "Not authorized to access this session")
         ELSE /\ chat_sessions' =
                   [sid \in DOMAIN chat_sessions \ {session_id} |-> chat_sessions[sid]]
              /\ chat_messages' =
                   SelectSeq(chat_messages, LAMBDA m : m.session_id /= session_id)
              /\ response' = Response("delete_session", current_user, session_id,
                                      204, [deleted |-> TRUE])
              /\ UNCHANGED <<db_clock, message_log>>
  /\ UNCHANGED <<sseVars, connVars, memVars>>

\* data.content[:50] if len(data.content) > 50 else data.content
AutoTitle(content) ==
  IF Len(content) > TitleLimit THEN SubSeq(content, 1, TitleLimit) ELSE content

\* POST /api/sessions/{session_id}/messages: the title is taken from the
\* first user message of a session without title, then create_message
api_add_message(current_user, session_id, role, content) ==
  /\ pc = "idle"
  /\ LET session == get_session_by_id(session_id)
     IN  IF session = <<>>
         THEN HTTPException("add_message", current_user, session_id,
                            404, "Session not found")
         ELSE IF NotOwner(session[1], current_user)
         THEN HTTPException("add_message", current_user, session_id,
                            403, "Not authorized to access this session")
         ELSE /\ Len(message_log) < MaxApiMessages
              /\ LET titled == IF session[1].title \in {NULL, <<>>} /\ role = "user"
                               THEN update_session_title(session_id, AutoTitle(content))
                               ELSE chat_sessions
                     row == NewMessageRow(session_id, role, content)
                 IN  /\ chat_sessions' =
                          [titled EXCEPT ![session_id].updated_at = db_clock]
                     /\ chat_messages' = Append(chat_messages, row)
                     /\ message_log' = Append(message_log,
                          [id |-> row.id, session_id |-> session_id,
                           role |-> role, content |-> content])
                     /\ response' = Response("add_message", current_user, session_id,
                                             201, [message |-> row])
              /\ UNCHANGED db_clock
  /\ UNCHANGED <<sseVars, connVars, memVars>>

ApiNext ==
  \E current_user \in Users :
    \/ api_get_sessions(current_user)
    \/ \E title \in ApiTitles \cup {NULL} : api_create_session(current_user, title)
    \/ \E session_id \in ApiSessionIds :
         \/ api_get_session_detail(current_user, session_id)
         \/ \E title \in ApiTitles : api_update_session(current_user, session_id, title)
         \/ api_delete_session(current_user, session_id)
         \/ \E role \in Roles, content \in ApiContents :
              api_add_message(current_user, session_id, role, content)

SpecApi == ApiInit /\ [][ApiNext]_vars

(***************************************************************************)
(* C1  Chunk-boundary invariance: a clean run on any fragmentation of S    *)
(* emits the same event sequence as the run on S as a single fragment.     *)
(***************************************************************************)
ChunkBoundaryInvariance ==
  (pc = "done" /\ nfrag >= 1) => events = RunFragments(<<input>>)

(***************************************************************************)
(* C2  "hello [IMAGE:QUJD] world" yields Answer("hello "), Image("QUJD"),  *)
(* Answer(" world") and then only Done.                                    *)
(***************************************************************************)
HelloImageExtracted ==
  (pc = "done" /\ input = HelloImage) =>
    events = << Ev("answer", <<"h", "e", "l", "l", "o", " ">>),
                Ev("image", <<"Q", "U", "J", "D">>),
                Ev("answer", <<" ", "w", "o", "r", "l", "d">>),
                DoneEvent >>

(***************************************************************************)
(* C3  Nested-bracket robustness: when the output holds a chart marker     *)
(* with a "]" inside balanced braces, a Chart event carries exactly the    *)
(* text between "[CHART:" and the first "]" at brace depth 0, and no text  *)
(* event carries the marker.                                               *)
(***************************************************************************)
ChartSpanEnd(s) == ChartScan(s, Find(s, ChartPrefix) + 7, 0)

ChartSpanPayload(s) == Slice(s, Find(s, ChartPrefix) + 7, ChartSpanEnd(s))

HasNestedBracketChart(s) ==
  /\ Contains(s, ChartPrefix)
  /\ ChartSpanEnd(s) >= 0
  /\ Contains(ChartSpanPayload(s), Close)

NestedBracketRobustness ==
  (pc = "done" /\ HasNestedBracketChart(input)) =>
    /\ \E i \in EventsOfType("chart") :
         B64Decode(events[i].data) = ChartSpanPayload(input)
    /\ \A i \in 1..Len(events) :
         events[i].type \in TextTypes => ~Contains(EventText(events[i]), ChartPrefix)

(***************************************************************************)
(* C4  No data loss on truncation: when the stream ends cleanly with an    *)
(* unresolved marker candidate in the buffer, the drain emits the whole    *)
(* buffer as plain text.                                                   *)
(***************************************************************************)
UnresolvedCandidate(b) ==
  \/ StartsWith(b, ImagePrefix) /\ ~Contains(b, Close)
  \/ StartsWith(b, ImageMetaPrefix) /\ ~Contains(b, Close)
  \/ StartsWith(b, ChartPrefix) /\ ChartScan(b, 7, 0) = -1

NoLossOnTruncation ==
  [][(pc = "streaming" /\ pc' = "done" /\ UnresolvedCandidate(buffer)) =>
       /\ \A i \in 1..(Len(Added) - 1) : Added[i].type \in TextTypes
       /\ DecodedText(Added) = buffer]_vars

(***************************************************************************)
(* C5  Plain-text fidelity: for an output with no marker prefix, in any    *)
(* fragmentation, the decoded text events concatenate to the output.       *)
(***************************************************************************)
PlainTextFidelity ==
  (pc = "done" /\ ~HasMarkerPrefix(input)) =>
    /\ DecodedText(events) = input
    /\ \A i \in 1..(Len(events) - 1) : events[i].type \in TextTypes

PlainTextFidelityWitness ==
  /\ pc = "done"
  /\ ~HasMarkerPrefix(input)
  /\ Contains(input, Bracket)
  /\ EventsOfType("answer") /= {}
  /\ EventsOfType("answer_base64") /= {}

(***************************************************************************)
(* C6  Reproduction: the decoded text events, with every structured event  *)
(* replaced by its marker, concatenate in emission order to the output.    *)
(***************************************************************************)
ReproducesInput == pc = "done" => Reproduced(events) = input

(***************************************************************************)
(* C7  Newline safety: no answer event carries a newline; the plain text   *)
(* the handler emitted (full_response) is what the text events decode to,  *)
(* so text with a newline is read back exactly from answer_base64.         *)
(***************************************************************************)
NewlineSafety ==
  /\ \A i \in EventsOfType("answer") : ~HasNewline(events[i].data)
  /\ DecodedText(events) = full_response

NewlineSafetyWitness ==
  /\ pc = "done"
  /\ \E i \in EventsOfType("answer_base64") :
       /\ HasNewline(B64Decode(events[i].data))
       /\ Len(B64Decode(events[i].data)) >= 2
  /\ EventsOfType("answer") /= {}

(***************************************************************************)
(* C9  Terminal events: an uncancelled run ends with exactly one terminal  *)
(* event, its last: done after the source is exhausted without error,      *)
(* error when the source fails; nothing follows it.                        *)
(***************************************************************************)
TerminalEvents ==
  LET terminal == EventsOfType("done") \cup EventsOfType("error")
  IN  /\ pc \in {"streaming", "cancelled"} => terminal = {}
      /\ pc = "done" =>
           /\ terminal = {Len(events)}
           /\ events[Len(events)] = DoneEvent
           /\ pos = Len(input)
      /\ pc = "error" =>
           /\ terminal = {Len(events)}
           /\ events[Len(events)].type = "error"

TerminalEventsWitness ==
  /\ pc = "error"
  /\ Len(events) >= 2
  /\ pos < Len(input)

(***************************************************************************)
(* C10  Upstream failure: whatever the source raises, one error event with *)
(* the same generic message ends the run; the source is not asked again.   *)
(***************************************************************************)
GenericErrorData == <<"{\"message\": \"", GenericErrorMessage, "\"}">>

UpstreamFailure ==
  pc = "error" =>
    /\ Cardinality(EventsOfType("error")) = 1
    /\ events[Len(events)] = Ev("error", GenericErrorData)
    /\ \A e \in Exceptions : ~ENABLED SourceRaise(e)
    /\ \A n \in 0..Len(input) : ~ENABLED Feed(n)

UpstreamFailureWitness ==
  /\ pc = "error"
  /\ buffer /= <<>>
  /\ nfrag >= 1

(***************************************************************************)
(* C11  Drain discipline: on a clean end of the source the drain runs, so  *)
(* that a trailing unresolved buffer is not lost (some event besides done  *)
(* is emitted for it); after a source error the error event is the only    *)
(* event emitted, and the buffered text is emitted in no event.            *)
(***************************************************************************)
DrainOnCleanEnd ==
  (pc = "streaming" /\ pc' = "done" /\ UnresolvedCandidate(buffer)) =>
    /\ Len(Added) >= 2
    /\ Added[Len(Added)] = DoneEvent

NoDrainAfterAbort ==
  (pc = "streaming" /\ pc' = "error") =>
    /\ Len(Added) = 1
    /\ Added[1].type = "error"
    /\ full_response' = full_response

DrainDiscipline == [][DrainOnCleanEnd /\ NoDrainAfterAbort]_vars

(***************************************************************************)
(* C12  Structured payload encoding: an image event carries the extracted  *)
(* payload as it stands, an image_meta or chart event carries its base64   *)
(* encoding: the event's data is well-formed base64 and, decoded and put   *)
(* back between the prefix and "]", it is text of the output.  Markers     *)
(* resolved in the drain included.                                         *)
(***************************************************************************)
IsBase64(d) ==
  /\ Len(d) % 4 = 0
  /\ \A k \in 1..Len(d) :
       \/ d[k] \in DOMAIN B64Index
       \/ d[k] = "=" /\ k >= Len(d) - 1 /\ \A j \in k..Len(d) : d[j] = "="

StructuredPayloadEncoding ==
  \A i \in 1..Len(events) :
    /\ events[i].type \in {"image_meta", "chart"} =>
         /\ IsBase64(events[i].data)
         /\ B64Encode(B64Decode(events[i].data)) = events[i].data
    /\ (events[i].type \in MarkerTypes
          /\ (events[i].type = "image" \/ IsBase64(events[i].data))) =>
         Contains(input, EventMarker(events[i]))

StructuredPayloadWitness ==
  /\ pc = "done"
  /\ \E i \in EventsOfType("image") : Len(events[i].data) >= 4
  /\ \E i \in EventsOfType("image_meta") : Len(B64Decode(events[i].data)) >= 2
  /\ nfrag >= 2

\* a chart resolved by the drain
DrainedChartWitness ==
  /\ pc = "done"
  /\ nfrag = 1
  /\ input = NotedChart
  /\ EventsOfType("chart") /= {}

(***************************************************************************)
(* C13  Plain-text encoding rule: a text event is an answer event exactly  *)
(* when its text holds no newline, and an answer_base64 event exactly when *)
(* it holds one, on the streaming path and in the drain alike.             *)
(***************************************************************************)
PlainTextEncodingRule ==
  \A i \in 1..Len(events) :
    events[i].type \in TextTypes =>
      (events[i].type = "answer_base64" <=> HasNewline(EventText(events[i])))

(***************************************************************************)
(* C14  Message persistence round trip: once create_message has added a    *)
(* message to a session, whatever was created in that session before,      *)
(* get_messages_by_session(session) returns a message with the created id  *)
(* whose content and role are what was saved.                              *)
(***************************************************************************)
Retrieved(c) ==
  \A result \in get_messages_by_session(c.session_id, DefaultLimit, DefaultOffset) :
    \E k \in 1..Len(result) :
      /\ result[k].id = c.id
      /\ result[k].content = c.content
      /\ result[k].role = c.role

MessageRoundTrip ==
  message_log /= <<>> => Retrieved(message_log[Len(message_log)])

(***************************************************************************)
(* C17  SimpleClose: an image or image_meta marker ends at the first "]"   *)
(* after its prefix, so the payload extracted for it holds no "]".         *)
(***************************************************************************)
SimpleClosePayload ==
  \A i \in 1..Len(events) :
    /\ events[i].type = "image" => ~Contains(events[i].data, Close)
    /\ (events[i].type = "image_meta" /\ IsBase64(events[i].data)) =>
         ~Contains(B64Decode(events[i].data), Close)

(***************************************************************************)
(* C18  Same resolution at end of stream: when the source ends cleanly     *)
(* with a complete chart marker in the buffer, the drain emits a chart     *)
(* event whose payload ends at the first "]" at brace depth 0, and what    *)
(* follows that "]" as the text after it.                                  *)
(***************************************************************************)
AfterChartSpan(b) == Slice(b, ChartSpanEnd(b) + 1, Len(b))

DrainResolvesAsStreaming ==
  [][(/\ pc = "streaming" /\ pc' = "done"
      /\ Contains(buffer, ChartPrefix)
      /\ ChartSpanEnd(buffer) >= 0) =>
       \E i \in 1..Len(Added) :
         /\ Added[i].type = "chart"
         /\ B64Decode(Added[i].data) = ChartSpanPayload(buffer)
         /\ \/ IsBlank(AfterChartSpan(buffer))
            \/ DecodedText(SubSeq(Added, i + 1, Len(Added))) = AfterChartSpan(buffer)]_vars

(***************************************************************************)
(* C19  Remainder re-scan: when the handling of a fragment has resolved a  *)
(* marker, the rest of the buffer is scanned again within that handling:   *)
(* what is kept for the next fragment is empty or still a possible marker, *)
(* never plain text or a complete marker.                                  *)
(***************************************************************************)
\* a proper prefix of a registered marker prefix, or a full prefix with an
\* unclosed payload
PossibleMarker(b) ==
  \/ /\ b /= <<>>
     /\ \E prefix \in {ImagePrefix, ImageMetaPrefix, ChartPrefix} :
          Len(b) < Len(prefix) /\ StartsWith(prefix, b)
  \/ UnresolvedCandidate(b)

RemainderRescan ==
  [][(/\ nfrag' = nfrag + 1
      /\ \E i \in 1..Len(Added) : Added[i].type \in MarkerTypes) =>
       (buffer' = <<>> \/ PossibleMarker(buffer'))]_vars

(***************************************************************************)
(* C20  Pending-buffer invariant: after each fragment the buffer is empty  *)
(* or still a possible marker; text that cannot be a marker is not kept.   *)
(***************************************************************************)
PendingBufferInvariant ==
  pc = "streaming" => (buffer = <<>> \/ PossibleMarker(buffer))

(***************************************************************************)
(* C21  Partial emission up to the next marker start: when the buffer does *)
(* not begin with a marker prefix but a truncated marker starts later in   *)
(* it (as in "hello [IMA"), the pass emits the text before that start as   *)
(* plain text and retains the text from the start onward.                  *)
(***************************************************************************)
StartsWithPrefix(b) ==
  StartsWith(b, ImagePrefix) \/ StartsWith(b, ImageMetaPrefix) \/ StartsWith(b, ChartPrefix)

\* the text handled by the step: the buffer after `buffer += chunk`
Handled == buffer \o SubSeq(input, pos + 1, pos')

\* the lowest index >= 1 at which a truncated marker starts, -1 if none
TruncatedMarkerStart(b) ==
  LET starts == {i \in 1..(Len(b) - 1) : PossibleMarker(Slice(b, i, Len(b)))}
  IN  IF starts = {} THEN -1
      ELSE CHOOSE i \in starts : \A j \in starts : i <= j

PartialEmission ==
  [][(nfrag' = nfrag + 1) =>
       LET b == Handled
           k == TruncatedMarkerStart(b)
       IN  (~StartsWithPrefix(b) /\ ~StartsWith(b, Bracket) /\ k > 0) =>
             /\ DecodedText(Added) = Slice(b, 0, k)
             /\ buffer' = Slice(b, k, Len(b))]_vars

(***************************************************************************)
(* C22  Overflow guard: when a retained candidate reaches the ceiling      *)
(* without resolving, the pass emits the whole buffer as one plain-text    *)
(* event, resets the buffer and the run goes on streaming; no error event  *)
(* comes from the overflow.                                                *)
(***************************************************************************)
Overflowing(b) ==
  StartsWith(b, Bracket) /\ ~Contains(b, Close) /\ Len(b) >= OverflowCeiling

OverflowGuard ==
  [][(nfrag' = nfrag + 1 /\ Overflowing(Handled)) =>
       /\ Len(Added) = 1
       /\ Added[1].type \in TextTypes
       /\ EventText(Added[1]) = Handled
       /\ buffer' = <<>>
       /\ pc' = "streaming"
       /\ \A i \in 1..Len(events') : events'[i].type /= "error"]_vars

OverflowGuardWitness ==
  /\ pc = "done"
  /\ StartsWith(input, ImagePrefix)
  /\ Len(events) = 3
  /\ Len(events[1].data) = OverflowCeiling
  /\ events[2].type = "answer"

(***************************************************************************)
(* C23  Empty fragment: a zero-length fragment handled while the buffer is *)
(* empty emits no event; a clean stream of empty fragments only emits the  *)
(* done event.                                                             *)
(***************************************************************************)
EmptyFragment ==
  [][/\ (nfrag' = nfrag + 1 /\ pos' = pos /\ buffer = <<>>) => events' = events
     /\ (pc = "streaming" /\ pc' = "done" /\ Len(input) = 0) => events' = <<DoneEvent>>]_vars

(***************************************************************************)
(* C24  Emission order: the events of a run come in the order of their     *)
(* source text in the output: the texts and markers behind the events      *)
(* occur in the output one after the other, none before the end of the one *)
(* before it, at every point of a run, cut short or not.                   *)
(***************************************************************************)
\* the text of the output an event stands for
SourceText(e) ==
  IF e.type \in TextTypes THEN EventText(e)
  ELSE IF e.type \in MarkerTypes THEN EventMarker(e)
  ELSE <<>>

\* the lowest index >= from at which p occurs in s, -1 if none
FindFrom(s, p, from) ==
  LET at == {i \in from..(Len(s) - Len(p)) : MatchAt(s, i, p)}
  IN  IF at = {} THEN -1 ELSE CHOOSE i \in at : \A j \in at : i <= j

RECURSIVE InOrderFrom(_, _)
InOrderFrom(evs, from) ==
  IF evs = <<>> THEN TRUE
  ELSE LET src == SourceText(Head(evs))
           i == FindFrom(input, src, from)
       IN  i >= 0 /\ InOrderFrom(Tail(evs), i + Len(src))

EmissionOrder == InOrderFrom(events, 0)

EmissionOrderWitness ==
  /\ pc = "done"
  /\ input = ChartAfterText
  /\ Len(events) = 4
  /\ events[1].type = "answer"
  /\ events[2].type = "chart"
  /\ events[3].type = "answer"

\* the drain's text, chart, text
DrainOrderWitness ==
  /\ pc = "done"
  /\ input = NotedChart
  /\ Len(events) = 3
  /\ events[1].type = "answer_base64"
  /\ events[2].type = "chart"

(***************************************************************************)
(* C25  Connection isolation: under any interleaving of the loop passes of *)
(* two concurrent requests, each connection's events, and its pending      *)
(* buffer, are those of a run of that connection alone on the fragments    *)
(* delivered to it.                                                        *)
(***************************************************************************)
ConnectionIsolation ==
  \A c \in DOMAIN conns :
    LET alone == LoopOver(conns[c].frags, <<>>, <<>>)
    IN  /\ conns[c].pc \in {"streaming", "cancelled"} =>
             /\ conns[c].events = alone.out
             /\ conns[c].buffer = alone.buffer
        /\ conns[c].pc = "done" => conns[c].events = RunFragments(conns[c].frags)
        /\ conns[c].pc = "error" =>
             conns[c].events = Append(alone.out, Ev("error", GenericErrorData))

\* both requests are in mid-stream, each holding back its own text
ConnectionIsolationWitness ==
  /\ DOMAIN conns = Conns
  /\ \A c \in Conns : conns[c].pc = "streaming" /\ Len(conns[c].frags) = 1
  /\ conns[1].buffer /= <<>>
  /\ conns[2].buffer /= <<>>
  /\ conns[1].buffer /= conns[2].buffer

(***************************************************************************)
(* C26  Client cancellation: once the client has disconnected, whether at  *)
(* the await of a fragment or at a yield of a pass or of the drain, no     *)
(* event follows the ones already sent - no error, no done, no drain of    *)
(* the buffer - and no further fragment is taken from the source.          *)
(***************************************************************************)
ClientCancellation ==
  /\ [](pc = "cancelled" =>
         /\ \A i \in 1..Len(events) : events[i].type \notin TerminalTypes
         /\ ~ENABLED CancelNext)
  /\ [][/\ pc = "cancelled" => (events' = events /\ pos' = pos /\ nfrag' = nfrag)
        /\ (pc' = "cancelled" /\ nfrag' = nfrag /\ pos < Len(input)) =>
             events' = events
        /\ (pc' = "cancelled" /\ pc = "streaming") =>
             LET whole == IF nfrag' = nfrag + 1
                          THEN HandleChunk(buffer, SubSeq(input, pos + 1, pos')).out
                          ELSE Drain(buffer).out
             IN  \E k \in 0..Len(whole) : Added = Yielded(whole, k)]_vars

ClientCancellationWitness ==
  /\ pc = "cancelled"
  /\ buffer /= <<>>
  /\ Contains(buffer, ChartPrefix)
  /\ Len(events) >= 1
  /\ events[Len(events)].type \in TextTypes
  /\ pos < Len(input)

(***************************************************************************)
(* C27  SSE framing: the data of every event, of any type, holds no        *)
(* newline, so that a frame is one event line, one data line and a blank   *)
(* line.                                                                   *)
(***************************************************************************)
SseFraming == \A i \in 1..Len(events) : ~HasNewline(events[i].data)

(***************************************************************************)
(* C28  No duplication: every character delivered is behind at most one    *)
(* event: the texts and markers the events stand for, and the text still   *)
(* pending in the buffer, are together no longer than what was delivered.  *)
(***************************************************************************)
\* the length of atob(d)
DecodedLen(d) ==
  3 * (Len(d) \div 4) - Cardinality({k \in (Len(d) - 1)..Len(d) : k >= 1 /\ d[k] = "="})

\* the number of characters of the output behind an event
SourceLenOf(e) ==
  IF e.type = "answer" THEN Len(e.data)
  ELSE IF e.type = "answer_base64" THEN DecodedLen(e.data)
  ELSE IF e.type = "image" THEN Len(ImagePrefix) + Len(e.data) + 1
  ELSE IF e.type = "image_meta" THEN Len(ImageMetaPrefix) + DecodedLen(e.data) + 1
  ELSE IF e.type = "chart" THEN Len(ChartPrefix) + DecodedLen(e.data) + 1
  ELSE 0

RECURSIVE SourceLen(_)
SourceLen(evs) ==
  IF evs = <<>> THEN 0 ELSE SourceLenOf(Head(evs)) + SourceLen(Tail(evs))

NoDuplication ==
  /\ pc \in {"streaming", "error"} => SourceLen(events) + Len(buffer) <= pos
  /\ pc = "cancelled" => SourceLen(events) <= pos
  /\ pc = "done" => SourceLen(events) <= Len(input)

NoDuplicationWitness ==
  /\ pc = "streaming"
  /\ EventsOfType("chart") /= {}
  /\ EventsOfType("answer") /= {}
  /\ buffer /= <<>>
  /\ SourceLen(events) + Len(buffer) = pos

(***************************************************************************)
(* C29  Bounded agent memory: after any calls of add_message, clear and    *)
(* clear_all, the history stored for a session holds at most               *)
(* 2 * max_rounds messages, an even number of them, Human and AI           *)
(* alternating, and they are the rounds added last to the session since it *)
(* was last cleared, in the order added; add_message with an empty or None *)
(* session id changes nothing.                                             *)
(***************************************************************************)
\* the rounds added to session s since it was last cleared, oldest first
RECURSIVE RoundsSince(_, _)
RoundsSince(log, s) ==
  IF log = <<>> THEN <<>>
  ELSE LET c == log[Len(log)]
           earlier == SubSeq(log, 1, Len(log) - 1)
       IN  IF c.op = "clear_all" \/ (c.op = "clear" /\ c.session_id = s) THEN <<>>
           ELSE IF c.op = "add_message" /\ c.session_id = s
           THEN Append(RoundsSince(earlier, s), <<c.user_input, c.ai_output>>)
           ELSE RoundsSince(earlier, s)

BoundedAgentMemory ==
  /\ [](\A s \in DOMAIN memory :
          LET h == memory[s]
              added == RoundsSince(calls, s)
              keep == IF Len(added) < max_rounds THEN Len(added) ELSE max_rounds
          IN  /\ ~Not(s)
              /\ Len(h) <= 2 * max_rounds
              /\ Len(h) % 2 = 0
              /\ \A i \in 1..Len(h) :
                   h[i].type = (IF i % 2 = 1 THEN "human" ELSE "ai")
              /\ Len(h) = 2 * keep
              /\ \A j \in 1..keep :
                   /\ h[2 * j - 1].content = added[Len(added) - keep + j][1]
                   /\ h[2 * j].content = added[Len(added) - keep + j][2])
  /\ [][(/\ Len(calls') = Len(calls) + 1
          /\ calls'[Len(calls')].op = "add_message"
          /\ Not(calls'[Len(calls')].session_id)) => memory' = memory]_vars

\* a session that has outgrown max_rounds = 2, and a call without session id
BoundedAgentMemoryWitness ==
  /\ max_rounds = 2
  /\ \E s \in DOMAIN memory :
       /\ Len(RoundsSince(calls, s)) > max_rounds
       /\ Len(memory[s]) = 4
       /\ memory[s][1].content /= memory[s][3].content
  /\ \E i \in 1..Len(calls) :
       calls[i].op = "add_message" /\ Not(calls[i].session_id)

(***************************************************************************)
(* C30  Session ownership: get-detail, update-title, delete and            *)
(* add-message on a session owned by another user are answered with 403    *)
(* and nothing else, and leave the tables as they were; on a session that  *)
(* does not exist they are answered with 404 and change nothing.           *)
(***************************************************************************)
GuardedOps == {"get_session_detail", "update_session", "delete_session", "add_message"}

\* the step is a call of the API, answered with response'
ApiCall == response' /= response \/ chatVars' /= chatVars

SessionOwnership ==
  [][(ApiCall /\ response'.op \in GuardedOps) =>
       LET r == response'
       IN  /\ (r.session_id \in DOMAIN chat_sessions
                 /\ chat_sessions[r.session_id].user_id /= r.caller) =>
                /\ r = Response(r.op, r.caller, r.session_id, 403,
                                [detail |-> "Not authorized to access this session"])
                /\ UNCHANGED chatVars
           /\ r.session_id \notin DOMAIN chat_sessions =>
                /\ r = Response(r.op, r.caller, r.session_id, 404,
                                [detail |-> "Session not found"])
                /\ UNCHANGED chatVars]_vars

\* user 2 was refused the deletion of user 1's session, which still has
\* its title and its message
SessionOwnershipWitness ==
  /\ response.status = 403
  /\ response.op = "delete_session"
  /\ response.caller = 2
  /\ response.session_id \in DOMAIN chat_sessions
  /\ chat_sessions[response.session_id].user_id = 1
  /\ chat_sessions[response.session_id].title /= NULL
  /\ \E i \in 1..Len(chat_messages) : chat_messages[i].session_id = response.session_id

(***************************************************************************)
(* C8  Bounded memory, for an output of "[" repeated far beyond the        *)
(* ceiling.  As claimed: the buffer never exceeds the ceiling at any point *)
(* of the run, the point after `buffer += chunk` included.                 *)
(***************************************************************************)
BufferNeverExceedsCeiling ==
  [][pos' > pos => Len(buffer) + (pos' - pos) <= OverflowCeiling]_vars

\* As amended: the fallback empties the buffer once it has reached the
\* ceiling, so the buffer kept after a fragment is shorter than the ceiling,
\* and everything delivered is either emitted as plain text or still kept.
RetainedBufferBelowCeiling ==
  /\ Len(buffer) < OverflowCeiling
  /\ pc = "streaming" => DecodedText(events) \o buffer = SubSeq(input, 1, pos)
  /\ pos >= OverflowCeiling => EventsOfType("answer") /= {}
  /\ pc = "done" => DecodedText(events) = input

RetainedBufferWitness ==
  /\ pc = "streaming"
  /\ EventsOfType("answer") /= {}
  /\ Len(buffer) = OverflowCeiling - 1
  /\ pos > 2 * OverflowCeiling

====
